---- MODULE Spec2Model ----
(***************************************************************************)
(* Model of the BitTorrent client: the shared PiecesQueue and the          *)
(* Worker::download_queue sessions (worker.rs), and the MessageFrame       *)
(* codec (peer.rs).                                                        *)
(*                                                                         *)
(* Spec      : NumSessions concurrent download_queue sessions against one  *)
(*             PiecesQueue, peers answering with anything.                 *)
(* LiveSpec  : the same sessions, scheduled fairly, every peer completing  *)
(*             the negotiation and at least one answering every Request    *)
(*             with the right data; the receiver stays open.               *)
(* CodecSpec : MessageFrame::encode / decode applied to a byte buffer.     *)
(* DecodeSpec: MessageFrame::decode applied to the bytes a peer may send.  *)
(* LoopSpec  : the for loop of download_queue building a piece's Requests. *)
(* SizeSpec  : the piece size rule applied to each piece of a torrent.     *)
(* HandshakeSpec : Handshake::send against a peer replying with anything.  *)
(* StreamSpec : a byte stream arriving in chunks of any sizes, decode       *)
(*             called after each chunk until it has nothing to return.     *)
(* ResponseSpec : the handling of the read that follows one Request.       *)
(* QueueSpec : PiecesQueue::new followed by any calls of take_piece and    *)
(*             push_piece.                                                 *)
(***************************************************************************)
EXTENDS Integers, Sequences, FiniteSets, TLC

\* ------------------------------------------------------------------ bounds
NumSessions == 3
NumPieces == 2
BlocksPerPiece == 2
NumContents == 2
MaxPayloadLen == 2

\* ------------------------------------------------------- program constants
BLOCK_SIZE == 16384
MAX == 65536

Sessions == 1..NumSessions
Pieces == 0..(NumPieces - 1)
None == -1

\* The torrent the sessions share: every piece but the last holds
\* BlocksPerPiece full blocks, the last piece holds half a block.
plength == BlocksPerPiece * BLOCK_SIZE
file_len == (NumPieces - 1) * plength + (BLOCK_SIZE \div 2)
num_pieces == NumPieces

VARIABLES
    queue,       \* PiecesQueue: the VecDeque behind the mutex
    pc,          \* per session: the await point / step it is at
    result,      \* per session: "running", "ok", "err" or "panic"
    exit_line,   \* per session: the line of worker.rs at which the session
                 \* ended (0: still running)
    piece_i,     \* per session: the index taken from the queue, or None
    block,       \* per session: the block of the for loop
    piece_data,  \* per session: the chunks appended to piece_data so far
    emitted,     \* what was sent on the completion channel, in order
    rx_closed,   \* the receiver of the completion channel was closed
    take_count,  \* history: how often take_piece returned each index
    push_count,  \* history: how often push_piece was called with each index
    sent,        \* history, per session: the types of the messages it has sent
    received,    \* history, per session: the messages init_frame has read, in
                 \* order, as far as it looks at them
    took,        \* history, per session: take_piece has returned it an index
    outstanding, \* history, per session: Requests sent and not yet answered
    cpc,         \* codec: "start", "encoded" or "decoded"
    cmsg,        \* codec: the message handed to encode
    buf,         \* codec: the BytesMut buffer
    enc_ok,      \* codec: encode returned Ok
    dec,         \* codec: what decode returned
    input,       \* codec: the buffer as the last decode call found it
    loop_piece,  \* block loop: the index and the size of the piece requested
    loop_block,  \* block loop: the block the for loop is at
    request,     \* block loop: the Request built last
    n_requests,  \* block loop: how many Requests were built
    requested,   \* block loop: the sum of their lengths
    torrent,     \* piece sizes: plength, the file length and the piece count
    piece_sizes, \* piece sizes: the size computed for each index so far, by
                 \* download_queue (inline) and by download_piece (residual)
    handshake,   \* handshake: the Handshake struct send is called on
    hs_io,       \* handshake: what the network does during send: the step
                 \* that fails, or the 68 bytes read back
    hs_sent,     \* handshake: the bytes written to the peer
    hs_result,   \* handshake: what send returned and the line it returned at
    last_call,   \* queue: the last call on the PiecesQueue: its name, its
                 \* argument, what it returned and the queue it found
    awaited,     \* response: the piece and block of the Request outstanding
    response,    \* response: what frame.next().await gives
    handled,     \* response: what the loop did with it
    stream,      \* stream: the bytes the peer sends, in order
    arrived,     \* stream: how many of them were appended to buf so far
    n_chunks,    \* stream: in how many chunks they arrived
    frames,      \* stream: what decode has returned so far (messages, then
                 \* possibly an error)
    peer         \* per session: what its peer and connection may do: "any"
                 \* (anything), "negotiates" (connects and completes the
                 \* negotiation, then anything) or "reliable" (also answers
                 \* every Request with the right data)

hvars == <<sent, received, took, outstanding>>
svars == <<queue, pc, result, exit_line, piece_i, block, piece_data, emitted, rx_closed,
           take_count, push_count, sent, received, took, outstanding>>
cvars == <<cpc, cmsg, buf, enc_ok, dec, input>>
bvars == <<loop_piece, loop_block, request, n_requests, requested>>
tvars == <<torrent, piece_sizes>>
kvars == <<handshake, hs_io, hs_sent, hs_result>>
qvars == <<last_call>>
rvars == <<awaited, response, handled>>
dvars == <<stream, arrived, n_chunks, frames>>
evars == <<peer>>
xvars == <<tvars, kvars, qvars, rvars, dvars, evars>>
vars == <<queue, pc, result, exit_line, piece_i, block, piece_data, emitted, rx_closed,
          take_count, push_count, sent, received, took, outstanding,
          cpc, cmsg, buf, enc_ok, dec, input,
          loop_piece, loop_block, request, n_requests, requested,
          torrent, piece_sizes,
          handshake, hs_io, hs_sent, hs_result, last_call,
          awaited, response, handled,
          stream, arrived, n_chunks, frames, peer>>

\* ------------------------------------------------------------ sizes
RECURSIVE SumLen(_)
SumLen(d) == IF d = <<>> THEN 0 ELSE Head(d).len + SumLen(Tail(d))

RECURSIVE SumContent(_)
SumContent(d) == IF d = <<>> THEN 0 ELSE Head(d).content + SumContent(Tail(d))

\* worker.rs 176-186: the size of piece piece_i of a file of flen bytes in
\* num pieces of pl bytes
inline_piece_size_always_mod(i, num, flen, pl) ==
    IF i = num - 1 THEN flen % pl ELSE pl
inline_piece_size(i, num, flen, pl) ==
    IF i = num - 1
    THEN LET base_len == flen % pl
         IN  IF base_len = 0 THEN pl ELSE base_len
    ELSE pl

\* worker.rs 176-186: the size of piece i of the torrent the sessions share
piece_size(i) == inline_piece_size(i, num_pieces, file_len, plength)

\* worker.rs 194
n_blocks(size) == (size + (BLOCK_SIZE - 1)) \div BLOCK_SIZE

\* worker.rs 201-211
block_size_full(b, size) == BLOCK_SIZE
block_size(b, size) ==
    IF b = n_blocks(size) - 1
    THEN LET base_len == size % BLOCK_SIZE
         IN  IF base_len = 0 THEN BLOCK_SIZE ELSE base_len
    ELSE BLOCK_SIZE


\* ------------------------------------------------------------ messages
\* peer.rs 21-31: the tag of each MessageType
Choke == 0
Unchoke == 1
Interested == 2
NotInterested == 3
Have == 4
Bitfield == 5
Request == 6
Piece == 7
Cancel == 8
MessageTypes == {Choke, Unchoke, Interested, NotInterested, Have, Bitfield,
                 Request, Piece, Cancel}

Contents == 0..(NumContents - 1)

\* The payloads a peer may put in a message, as far as a session looks at
\* them: empty, too short to hold index and begin, or index + begin + block.
BlockLens == {BLOCK_SIZE, BLOCK_SIZE \div 2, 1}
PiecePayloads ==
    [kind : {"piece"}, index : Pieces, begin : {b * BLOCK_SIZE : b \in 0..BlocksPerPiece},
     len : BlockLens, content : Contents]
Payloads == {[kind |-> "empty"], [kind |-> "short"]} \cup PiecePayloads

\* What frame.next().await gives: None (stream closed), Some(Err) or Some(Ok(msg))
Messages == [kind : {"msg"}, id : MessageTypes, payload : Payloads]
ReadResults == {[kind |-> "eof"], [kind |-> "err"]} \cup Messages


\* Piece::load_from_payload: None when the payload cannot hold index and begin
load_from_payload(payload) ==
    IF payload.kind = "piece" THEN payload ELSE [kind |-> "none"]

\* ------------------------------------------------------------ the torrent
\* The content of block b of piece i in the file being shared
GoodContent(i, b) == (i + b) % NumContents

GoodData(i) ==
    [k \in 1..n_blocks(piece_size(i)) |->
        [len |-> block_size(k - 1, piece_size(i)), content |-> GoodContent(i, k - 1)]]

\* worker.rs 266-269: the digest of the assembled bytes. Distinct data may
\* share a digest.
Sha1(d) == <<SumLen(d), SumContent(d) % NumContents>>

\* worker.rs 174: self.torrent.info.pieces[piece_i]
piece_hash(i) == Sha1(GoodData(i))

\* ------------------------------------------------------------ PiecesQueue
\* worker.rs 301-305
PiecesQueue_new(n) == [k \in 1..n |-> k - 1]

\* worker.rs 307-309: pop_front under the lock; the index returned (None on an
\* empty queue) and the queue left behind
take_piece_back(q) ==
    IF q = <<>> THEN [piece |-> None, queue |-> q]
    ELSE [piece |-> q[Len(q)], queue |-> SubSeq(q, 1, Len(q) - 1)]
take_piece(q) ==
    IF q = <<>> THEN [piece |-> None, queue |-> q]
    ELSE [piece |-> Head(q), queue |-> Tail(q)]

\* worker.rs 311-316: push_back under the lock
push_piece_lost(q, i) == q
push_piece_front(q, i) == <<i>> \o q
push_piece(q, i) == Append(q, i)

\* ------------------------------------------------------------ sessions
\* No session has started
SessionsStart ==
    /\ pc = [s \in Sessions |-> "connect"]
    /\ result = [s \in Sessions |-> "running"]
    /\ exit_line = [s \in Sessions |-> 0]
    /\ piece_i = [s \in Sessions |-> None]
    /\ block = [s \in Sessions |-> 0]
    /\ piece_data = [s \in Sessions |-> <<>>]
    /\ emitted = <<>>
    /\ rx_closed = FALSE
    /\ take_count = [i \in Pieces |-> 0]
    /\ push_count = [i \in Pieces |-> 0]
    /\ sent = [s \in Sessions |-> {}]
    /\ received = [s \in Sessions |-> <<>>]
    /\ took = [s \in Sessions |-> FALSE]
    /\ outstanding = [s \in Sessions |-> 0]

SessionInit ==
    /\ queue = PiecesQueue_new(num_pieces)
    /\ SessionsStart

CodecIdle ==
    /\ cpc = "idle"
    /\ cmsg = [id |-> Choke, payload |-> <<>>]
    /\ buf = <<>>
    /\ enc_ok = FALSE
    /\ dec = [kind |-> "none"]
    /\ input = <<>>

\* No block loop is being followed
LoopIdle ==
    /\ loop_piece = [index |-> 0, size |-> 0]
    /\ loop_block = 0
    /\ request = [index |-> 0, begin |-> 0, length |-> 0]
    /\ n_requests = 0
    /\ requested = 0

\* No piece size is being computed
SizeIdle ==
    /\ torrent = [plength |-> 1, length |-> 1, num_pieces |-> 1]
    /\ piece_sizes = <<>>

\* handshake.rs 23-31
Handshake_new(info_hash, peer_id) ==
    [length |-> 19,
     protocol |-> <<66, 105, 116, 84, 111, 114, 114, 101, 110, 116, 32,
                    112, 114, 111, 116, 111, 99, 111, 108>>,
     reserved |-> [k \in 1..8 |-> 0],
     info_hash |-> info_hash,
     peer_id |-> peer_id]

\* Handshake::send is not being called
HandshakeIdle ==
    /\ handshake = Handshake_new([k \in 1..20 |-> 0], [k \in 1..20 |-> 0])
    /\ hs_io = [kind |-> "none"]
    /\ hs_sent = <<>>
    /\ hs_result = [kind |-> "none", line |-> 0]

\* No call on a PiecesQueue is being followed
QueueIdle ==
    last_call = [op |-> "none", arg |-> None, ret |-> None, before |-> <<>>]

\* No single response is being followed
ResponseIdle ==
    /\ awaited = [piece_i |-> None, block |-> 0]
    /\ response = [kind |-> "none"]
    /\ handled = [kind |-> "none"]

\* No byte stream is being followed
StreamIdle ==
    /\ stream = <<>>
    /\ arrived = 0
    /\ n_chunks = 0
    /\ frames = <<>>

\* Nothing is assumed of any peer
PeersAny == peer = [s \in Sessions |-> "any"]

ExtraIdle ==
    SizeIdle /\ HandshakeIdle /\ QueueIdle /\ ResponseIdle /\ StreamIdle /\ PeersAny

Init == SessionInit /\ CodecIdle /\ LoopIdle /\ ExtraIdle

\* The session returns r, leaving at `line`, and drops its locals
Exit(s, r, line) ==
    /\ pc' = [pc EXCEPT ![s] = "done"]
    /\ result' = [result EXCEPT ![s] = r]
    /\ exit_line' = [exit_line EXCEPT ![s] = line]
    /\ piece_i' = [piece_i EXCEPT ![s] = None]
    /\ block' = [block EXCEPT ![s] = 0]
    /\ piece_data' = [piece_data EXCEPT ![s] = <<>>]

Goto(s, label) ==
    /\ pc' = [pc EXCEPT ![s] = label]
    /\ UNCHANGED <<result, exit_line>>

\* queue.push_piece(piece_i) of session s (worker.rs 227, 233, 238, 244, 253,
\* 262, 271, 276)
Requeue_skipped(s) ==
    UNCHANGED <<queue, push_count>>
Requeue(s) ==
    /\ queue' = push_piece(queue, piece_i[s])
    /\ push_count' = [push_count EXCEPT ![piece_i[s]] = @ + 1]

\* What the peer of session s is assumed to do
Negotiates(s) == peer[s] \in {"negotiates", "reliable"}
Reliable(s) == peer[s] = "reliable"

\* Whether connecting and sending Interested may fail, whether sending a
\* Request may
ConnectResults(s) == IF Negotiates(s) THEN {TRUE} ELSE BOOLEAN
SendResults(s) == IF Reliable(s) THEN {TRUE} ELSE BOOLEAN

\* worker.rs 153, 33-40: connect and handshake; an error is returned with ?
Connect(s) ==
    /\ pc[s] = "connect"
    /\ \E ok \in ConnectResults(s) :
          IF ok
          THEN Goto(s, "bitfield") /\ UNCHANGED <<piece_i, block, piece_data>>
          ELSE Exit(s, "err", 153)
    /\ UNCHANGED <<queue, emitted, rx_closed, take_count, push_count>>
    /\ UNCHANGED hvars
    /\ UNCHANGED <<cvars, bvars, xvars>>

\* worker.rs 47-53: what init_frame does with the first read, and the line
\* at which it ends if it does: expect() panics on a closed stream (50), ?
\* returns the read error (51), assert_eq! panics on a message that is not
\* Bitfield (53)
bitfield_outcome_any(r) ==
    IF r.kind = "eof" THEN [result |-> "panic", line |-> 50]
    ELSE IF r.kind = "err" THEN [result |-> "err", line |-> 51]
    ELSE [result |-> "ok", line |-> 0]
bitfield_outcome(r) ==
    IF r.kind = "eof" THEN [result |-> "panic", line |-> 50]
    ELSE IF r.kind = "err" THEN [result |-> "err", line |-> 51]
    ELSE IF r.id # Bitfield THEN [result |-> "panic", line |-> 53]
    ELSE [result |-> "ok", line |-> 0]

\* What the first read gives and what init_frame does with it; of a message
\* it looks at the type only
BitfieldOutcomes ==
    {[o |-> bitfield_outcome(r),
      seen |-> IF r.kind = "msg" THEN <<[id |-> r.id]>> ELSE <<>>] : r \in ReadResults}

NegotiatingBitfieldOutcomes == {x \in BitfieldOutcomes : x.o.result = "ok"}

\* worker.rs 47-53: the first message must be Bitfield
AwaitBitfield(s) ==
    /\ pc[s] = "bitfield"
    /\ \E x \in (IF Negotiates(s) THEN NegotiatingBitfieldOutcomes ELSE BitfieldOutcomes) :
          /\ received' = [received EXCEPT ![s] = @ \o x.seen]
          /\ IF x.o.result = "ok"
             THEN Goto(s, "interested") /\ UNCHANGED <<piece_i, block, piece_data>>
             ELSE Exit(s, x.o.result, x.o.line)
    /\ UNCHANGED <<queue, emitted, rx_closed, take_count, push_count>>
    /\ UNCHANGED <<sent, took, outstanding>>
    /\ UNCHANGED <<cvars, bvars, xvars>>

\* worker.rs 55-61: send Interested with an empty payload
SendInterested(s) ==
    /\ pc[s] = "interested"
    /\ \E ok \in ConnectResults(s) :
          IF ok
          THEN /\ Goto(s, "unchoke")
               /\ sent' = [sent EXCEPT ![s] = @ \cup {Interested}]
               /\ UNCHANGED <<piece_i, block, piece_data>>
          ELSE /\ Exit(s, "err", 61)
               /\ UNCHANGED sent
    /\ UNCHANGED <<queue, emitted, rx_closed, take_count, push_count>>
    /\ UNCHANGED <<received, took, outstanding>>
    /\ UNCHANGED <<cvars, bvars, xvars>>

\* worker.rs 63-70: what init_frame does with the second read, and the line
\* at which it ends if it does: the message must be Unchoke (69) and its
\* payload empty (70)
unchoke_outcome_any_payload(r) ==
    IF r.kind = "eof" THEN [result |-> "panic", line |-> 66]
    ELSE IF r.kind = "err" THEN [result |-> "err", line |-> 67]
    ELSE IF r.id # Unchoke THEN [result |-> "panic", line |-> 69]
    ELSE [result |-> "ok", line |-> 0]
unchoke_outcome(r) ==
    IF r.kind = "eof" THEN [result |-> "panic", line |-> 66]
    ELSE IF r.kind = "err" THEN [result |-> "err", line |-> 67]
    ELSE IF r.id # Unchoke THEN [result |-> "panic", line |-> 69]
    ELSE IF r.payload.kind # "empty" THEN [result |-> "panic", line |-> 70]
    ELSE [result |-> "ok", line |-> 0]

\* What the second read gives and what init_frame does with it; of a message
\* it looks at the type and at whether the payload is empty
UnchokeOutcomes ==
    {[o |-> unchoke_outcome(r),
      seen |-> IF r.kind = "msg"
               THEN <<[id |-> r.id, empty |-> r.payload.kind = "empty"]>>
               ELSE <<>>] : r \in ReadResults}

NegotiatingUnchokeOutcomes == {x \in UnchokeOutcomes : x.o.result = "ok"}

\* worker.rs 63-72: the next message must be Unchoke with an empty payload
AwaitUnchoke(s) ==
    /\ pc[s] = "unchoke"
    /\ \E x \in (IF Negotiates(s) THEN NegotiatingUnchokeOutcomes ELSE UnchokeOutcomes) :
          /\ received' = [received EXCEPT ![s] = @ \o x.seen]
          /\ IF x.o.result = "ok"
             THEN Goto(s, "take") /\ UNCHANGED <<piece_i, block, piece_data>>
             ELSE Exit(s, x.o.result, x.o.line)
    /\ UNCHANGED <<queue, emitted, rx_closed, take_count, push_count>>
    /\ UNCHANGED <<sent, took, outstanding>>
    /\ UNCHANGED <<cvars, bvars, xvars>>

\* worker.rs 166-170, 285: what download_queue returns when take_piece gave
\* None: the loop is left with break and Ok(()) follows it
empty_queue_result_err == "err"
empty_queue_result == "ok"

\* worker.rs 164-195: take the next index, or leave the loop on an empty queue
TakePiece(s) ==
    /\ pc[s] = "take"
    /\ LET t == take_piece(queue) IN
          IF t.piece = None
          THEN /\ Exit(s, empty_queue_result, 169)
               /\ UNCHANGED <<queue, take_count, took>>
          ELSE /\ queue' = t.queue
               /\ take_count' = [take_count EXCEPT ![t.piece] = @ + 1]
               /\ took' = [took EXCEPT ![s] = TRUE]
               /\ piece_i' = [piece_i EXCEPT ![s] = t.piece]
               /\ block' = [block EXCEPT ![s] = 0]
               /\ piece_data' = [piece_data EXCEPT ![s] = <<>>]
               /\ Goto(s, "request")
    /\ UNCHANGED <<emitted, rx_closed, push_count>>
    /\ UNCHANGED <<sent, received, outstanding>>
    /\ UNCHANGED <<cvars, bvars, xvars>>

\* worker.rs 219-232: where the session is after the Request was sent: at the
\* read of its response
after_request_pipelined == "request"
after_request == "response"

\* worker.rs 213-229: send the Request of the current block
SendRequest(s) ==
    /\ pc[s] = "request"
    /\ \E ok \in SendResults(s) :
          IF ok
          THEN /\ Goto(s, after_request)
               /\ sent' = [sent EXCEPT ![s] = @ \cup {Request}]
               /\ outstanding' = [outstanding EXCEPT ![s] = @ + 1]
               /\ UNCHANGED <<piece_i, block, piece_data, queue, push_count>>
          ELSE /\ Requeue(s)
               /\ Exit(s, "ok", 228)
               /\ UNCHANGED <<sent, outstanding>>
    /\ UNCHANGED <<emitted, rx_closed, take_count>>
    /\ UNCHANGED <<received, took>>
    /\ UNCHANGED <<cvars, bvars, xvars>>

\* worker.rs 248-250: the response does not answer the outstanding request
block_mismatch_no_len(p, i, b, size) ==
    \/ p.index # i
    \/ p.begin # b * BLOCK_SIZE
block_mismatch(p, i, b, size) ==
    \/ p.index # i
    \/ p.begin # b * BLOCK_SIZE
    \/ p.len # block_size(b, size)

\* worker.rs 231-258: what the loop does with the read that follows the
\* Request of block b of piece i. "broke": push, break out of the for loop
\* (232-235). "exit": push, break 'start at `line` (237-255). "append":
\* extend piece_data (258). The type of the message is not looked at (the
\* assert on it is commented out, line 241). A chunk keeps, beside the block's
\* bytes (len, content), the index and begin of the payload it was taken from.
read_outcome(r, i, b) ==
    IF r.kind # "msg" THEN [kind |-> "broke"]
    ELSE IF r.payload.kind = "empty" THEN [kind |-> "exit", line |-> 239]
    ELSE LET p == load_from_payload(r.payload) IN
         IF p.kind = "none" THEN [kind |-> "exit", line |-> 245]
         ELSE IF block_mismatch(p, i, b, piece_size(i)) THEN [kind |-> "exit", line |-> 254]
         ELSE [kind |-> "append",
               chunk |-> [index |-> p.index, begin |-> p.begin,
                          len |-> p.len, content |-> p.content]]

\* For each outstanding Request, what the reads a peer can cause lead to
ReadOutcomes ==
    [i \in Pieces, b \in 0..(n_blocks(plength) - 1) |->
        {read_outcome(r, i, b) : r \in ReadResults}]

\* What the read leads to when the peer answers the Request with the block
\* of the file it asks for
ReliableReadOutcomes ==
    [i \in Pieces, b \in 0..(n_blocks(plength) - 1) |->
        {o \in ReadOutcomes[i, b] :
            o.kind = "append" /\ o.chunk.content = GoodContent(i, b)}]

\* worker.rs 231-259: read the response to the Request
ReadResponse(s) ==
    /\ pc[s] = "response"
    /\ \E o \in (IF Reliable(s) THEN ReliableReadOutcomes ELSE ReadOutcomes)[piece_i[s], block[s]] :
          CASE o.kind = "broke" ->
                  /\ Requeue(s)
                  /\ Goto(s, "broke")
                  /\ UNCHANGED <<piece_i, block, piece_data, outstanding>>
            [] o.kind = "exit" ->
                  /\ Requeue(s)
                  /\ Exit(s, "ok", o.line)
                  /\ outstanding' = [outstanding EXCEPT ![s] = @ - 1]
            [] o.kind = "append" ->
                  /\ piece_data' = [piece_data EXCEPT ![s] = Append(@, o.chunk)]
                  /\ block' = [block EXCEPT ![s] = @ + 1]
                  /\ Goto(s, IF block[s] + 1 < n_blocks(piece_size(piece_i[s]))
                             THEN "request" ELSE "verify")
                  /\ outstanding' = [outstanding EXCEPT ![s] = @ - 1]
                  /\ UNCHANGED <<piece_i, queue, push_count>>
    /\ UNCHANGED <<emitted, rx_closed, take_count>>
    /\ UNCHANGED <<sent, received, took>>
    /\ UNCHANGED <<cvars, bvars, xvars>>

\* worker.rs 275
hash_unchecked(d, i) == TRUE
hash_rejects_all(d, i) == FALSE
hash_ok(d, i) == Sha1(d) = piece_hash(i)

\* worker.rs 261-278: after the for loop, the length check and the hash check
CheckPiece(s) ==
    /\ pc[s] \in {"verify", "broke"}
    /\ LET i == piece_i[s] IN
          IF SumLen(piece_data[s]) # piece_size(i)
          THEN Requeue(s) /\ Exit(s, "ok", 263)
          ELSE IF ~hash_ok(piece_data[s], i)
          THEN Requeue(s) /\ Exit(s, "ok", 277)
          ELSE /\ Goto(s, "emit")
               /\ UNCHANGED <<piece_i, block, piece_data, queue, push_count>>
    /\ UNCHANGED <<emitted, rx_closed, take_count>>
    /\ UNCHANGED hvars
    /\ UNCHANGED <<cvars, bvars, xvars>>

\* worker.rs 282: the channel after result.send((piece_i, piece_data)) went
\* through
result_send_dropped(channel, i, data) == channel
result_send(channel, i, data) == Append(channel, [index |-> i, data |-> data])

\* worker.rs 280-282: result.send((piece_i, piece_data)).await?
\* The send fails only when the receiver was closed; the error is returned
\* with ? and the index is not pushed back (piece_i keeps the index the
\* session held when it returned).
SendResult(s) ==
    /\ pc[s] = "emit"
    /\ IF rx_closed
       THEN /\ pc' = [pc EXCEPT ![s] = "done"]
            /\ result' = [result EXCEPT ![s] = "err"]
            /\ exit_line' = [exit_line EXCEPT ![s] = 282]
            /\ block' = [block EXCEPT ![s] = 0]
            /\ piece_data' = [piece_data EXCEPT ![s] = <<>>]
            /\ UNCHANGED <<piece_i, emitted>>
       ELSE /\ emitted' = result_send(emitted, piece_i[s], piece_data[s])
            /\ piece_i' = [piece_i EXCEPT ![s] = None]
            /\ block' = [block EXCEPT ![s] = 0]
            /\ piece_data' = [piece_data EXCEPT ![s] = <<>>]
            /\ Goto(s, "take")
    /\ UNCHANGED <<queue, rx_closed, take_count, push_count>>
    /\ UNCHANGED hvars
    /\ UNCHANGED <<cvars, bvars, xvars>>

\* worker.rs 280: the owner of the channel's Receiver closes or drops it
CloseReceiver ==
    /\ ~rx_closed
    /\ rx_closed' = TRUE
    /\ UNCHANGED <<queue, pc, result, exit_line, piece_i, block, piece_data, emitted,
                   take_count, push_count>>
    /\ UNCHANGED hvars
    /\ UNCHANGED <<cvars, bvars, xvars>>

\* worker.rs 147-286: the steps of session s
download_queue(s) ==
    \/ Connect(s)
    \/ AwaitBitfield(s)
    \/ SendInterested(s)
    \/ AwaitUnchoke(s)
    \/ TakePiece(s)
    \/ SendRequest(s)
    \/ ReadResponse(s)
    \/ CheckPiece(s)
    \/ SendResult(s)

Next ==
    \/ \E s \in Sessions : download_queue(s)
    \/ CloseReceiver

Spec == Init /\ [][Next]_vars

\* ------------------------------------------------------------ fair sessions
\* Every peer lets its session through the negotiation, the peer of session
\* 1 and any of the others are reliable; the Receiver is kept open
LiveInit ==
    /\ SessionInit
    /\ CodecIdle
    /\ LoopIdle
    /\ SizeIdle /\ HandshakeIdle /\ QueueIdle /\ ResponseIdle /\ StreamIdle
    /\ peer \in {p \in [Sessions -> {"negotiates", "reliable"}] : p[1] = "reliable"}

LiveNext == \E s \in Sessions : download_queue(s)

\* Each session is a spawned task the runtime keeps polling, and each of its
\* awaits completes: a step it can take is taken
LiveSpec ==
    LiveInit /\ [][LiveNext]_vars /\ \A s \in Sessions : WF_vars(download_queue(s))

\* ================================================================ codec
\* The bytes a payload is made of in the codec's checks
SampleBytes == {0, 1, 255}

RECURSIVE SeqsUpTo(_, _)
SeqsUpTo(S, n) ==
    IF n = 0 THEN {<<>>}
    ELSE LET shorter == SeqsUpTo(S, n - 1)
         IN  shorter \cup {Append(q, x) : q \in {w \in shorter : Len(w) = n - 1}, x \in S}

\* Payloads at the sizes where the length prefix changes shape, and the first
\* size encode refuses
LongPayloads == {[k \in 1..n |-> 0] : n \in {255, MAX - 1, MAX}}

\* peer.rs 34-37: a Message, its payload a byte sequence
CodecMessages ==
    [id : MessageTypes, payload : SeqsUpTo(SampleBytes, MaxPayloadLen)]
        \cup [id : {Piece}, payload : LongPayloads]

\* u32::to_le_bytes (peer.rs 141)
to_le_bytes(n) ==
    <<n % 256, (n \div 256) % 256, (n \div 65536) % 256, (n \div 16777216) % 256>>

\* u32::to_be_bytes, the encoding of a length prefix on the wire
to_be_bytes(n) ==
    <<(n \div 16777216) % 256, (n \div 65536) % 256, (n \div 256) % 256, n % 256>>

\* u32::from_be_bytes (peer.rs 60)
from_le_bytes(b) == b[4] * 16777216 + b[3] * 65536 + b[2] * 256 + b[1]
from_be_bytes(b) == b[1] * 16777216 + b[2] * 65536 + b[3] * 256 + b[4]

\* BytesMut::advance(n)
advance_all(src, n) == <<>>
advance(src, n) == SubSeq(src, n + 1, Len(src))

\* peer.rs 129-151: Encoder::encode; ok and the destination buffer afterwards
encode_unchecked(item, dst) ==
    [ok |-> TRUE,
     dst |-> dst \o to_le_bytes(Len(item.payload) + 1) \o <<item.id>> \o item.payload]
encode(item, dst) ==
    IF Len(item.payload) + 1 > MAX
    THEN [ok |-> FALSE, dst |-> dst]
    ELSE LET len_slice == to_le_bytes(Len(item.payload) + 1)
         IN  [ok |-> TRUE, dst |-> dst \o len_slice \o <<item.id>> \o item.payload]

\* peer.rs 93-109: the match on the tag byte src[4]. Unchoke and
\* NotInterested stand for the variants the enum spells Unchode and
\* NotIntereted.
msg_type_shifted(tag) ==
    IF tag \in 1..9 THEN [known |-> TRUE, id |-> tag - 1] ELSE [known |-> FALSE]
msg_type(tag) ==
    CASE tag = 0 -> [known |-> TRUE, id |-> Choke]
      [] tag = 1 -> [known |-> TRUE, id |-> Unchoke]
      [] tag = 2 -> [known |-> TRUE, id |-> Interested]
      [] tag = 3 -> [known |-> TRUE, id |-> NotInterested]
      [] tag = 4 -> [known |-> TRUE, id |-> Have]
      [] tag = 5 -> [known |-> TRUE, id |-> Bitfield]
      [] tag = 6 -> [known |-> TRUE, id |-> Request]
      [] tag = 7 -> [known |-> TRUE, id |-> Piece]
      [] tag = 8 -> [known |-> TRUE, id |-> Cancel]
      [] OTHER -> [known |-> FALSE]

\* peer.rs 49-123: Decoder::decode; what it returns and the source buffer
\* afterwards. out.kind is "none" for Ok(None), "msg" for Ok(Some(message)),
\* "too_large" and "unknown_type" for the two errors.
decode_frame_drops_partial(src, length) ==
    IF Len(src) < 5
    THEN [out |-> [kind |-> "none"], src |-> src]
    ELSE IF length > MAX
    THEN [out |-> [kind |-> "too_large"], src |-> src]
    ELSE IF Len(src) < 4 + length
    THEN [out |-> [kind |-> "none"], src |-> <<>>]
    ELSE LET t == msg_type(src[5]) IN
         IF ~t.known
         THEN [out |-> [kind |-> "unknown_type"], src |-> src]
         ELSE LET data == IF Len(src) > 5 THEN SubSeq(src, 6, 4 + length) ELSE <<>>
              IN  [out |-> [kind |-> "msg", id |-> t.id, payload |-> data],
                   src |-> advance(src, 4 + length)]
decode_frame(src, length) ==
    IF Len(src) < 5
    THEN [out |-> [kind |-> "none"], src |-> src]
    ELSE IF length > MAX
    THEN [out |-> [kind |-> "too_large"], src |-> src]
    ELSE IF Len(src) < 4 + length
    THEN [out |-> [kind |-> "none"], src |-> src]
    ELSE LET t == msg_type(src[5]) IN
         IF ~t.known
         THEN [out |-> [kind |-> "unknown_type"], src |-> src]
         ELSE LET data == IF Len(src) > 5 THEN SubSeq(src, 6, 4 + length) ELSE <<>>
              IN  [out |-> [kind |-> "msg", id |-> t.id, payload |-> data],
                   src |-> advance(src, 4 + length)]

\* peer.rs 62-65 without the retry: the keepalive is consumed and Ok(None)
\* returned
decode_keepalive_returned(src) ==
    IF Len(src) < 4
    THEN [out |-> [kind |-> "none"], src |-> src]
    ELSE LET length == from_be_bytes(SubSeq(src, 1, 4)) IN
         IF length = 0
         THEN [out |-> [kind |-> "none"], src |-> advance(src, 4)]
         ELSE decode_frame(src, length)

RECURSIVE decode(_)
decode(src) ==
    IF Len(src) < 4
    THEN [out |-> [kind |-> "none"], src |-> src]
    ELSE LET length == from_be_bytes(SubSeq(src, 1, 4)) IN
         IF length = 0
         THEN decode(advance(src, 4))
         ELSE decode_frame(src, length)

\* A message is about to be encoded into an empty buffer
CodecInit ==
    /\ SessionInit
    /\ cpc = "start"
    /\ cmsg \in CodecMessages
    /\ buf = <<>>
    /\ enc_ok = FALSE
    /\ dec = [kind |-> "none"]
    /\ input = <<>>
    /\ LoopIdle
    /\ ExtraIdle

\* frame.send(message): encode appends the frame to the buffer
Encode ==
    /\ cpc = "start"
    /\ LET e == encode(cmsg, buf) IN
          /\ enc_ok' = e.ok
          /\ buf' = e.dst
    /\ cpc' = "encoded"
    /\ UNCHANGED <<cmsg, dec, input>>
    /\ UNCHANGED <<svars, bvars, xvars>>

\* frame.next(): decode takes a frame from the buffer
Decode ==
    /\ cpc \in {"encoded", "received"}
    /\ LET d == decode(buf) IN
          /\ dec' = d.out
          /\ buf' = d.src
    /\ input' = buf
    /\ cpc' = "decoded"
    /\ UNCHANGED <<cmsg, enc_ok>>
    /\ UNCHANGED <<svars, bvars, xvars>>

CodecNext == Encode \/ Decode

CodecSpec == CodecInit /\ [][CodecNext]_vars

\* ------------------------------------------------------------ decode alone
MaxKeepalives == 2

\* The tag bytes a peer may send: the nine known ones and some unknown
TagBytes == 0..9 \cup {127, 255}

\* Length prefixes around the limit of Message::MAX, all below 2^31
PrefixLens == {1, 2, 3, MAX, MAX + 1, 16777216, 2130706432}

\* What may follow a length prefix in the buffer: nothing, or a tag byte and
\* some bytes
Tails == {<<>>} \cup {<<t>> \o p : t \in TagBytes, p \in SeqsUpTo(SampleBytes, MaxPayloadLen)}

Keepalives(k) == [j \in 1..(4 * k) |-> 0]

\* Complete frames of the largest sizes, the last one byte over the limit
LongFrames == {to_be_bytes(Len(p) + 1) \o <<Piece>> \o p : p \in LongPayloads}

\* A buffer cut off after any of its bytes
Cuts(w) == {SubSeq(w, 1, n) : n \in 0..Len(w)}

\* A buffer whole or one byte short
LastCuts(w) == {SubSeq(w, 1, n) : n \in {Len(w) - 1, Len(w)}}

\* The buffers decode is called on: keepalives, a length prefix and what
\* follows it, cut off at any byte; and the long frames, whole or one byte
\* short, alone or behind a keepalive
DecodeBuffers ==
    UNION {Cuts(Keepalives(k) \o to_be_bytes(L) \o tl) :
              k \in 0..MaxKeepalives, L \in PrefixLens, tl \in Tails}
        \cup UNION {LastCuts(Keepalives(k) \o f) : k \in 0..1, f \in LongFrames}

\* Bytes have arrived in the read buffer of a Framed stream
DecodeInit ==
    /\ SessionInit
    /\ cpc = "received"
    /\ cmsg = [id |-> Choke, payload |-> <<>>]
    /\ buf \in DecodeBuffers
    /\ enc_ok = FALSE
    /\ dec = [kind |-> "none"]
    /\ input = <<>>
    /\ LoopIdle
    /\ ExtraIdle

DecodeSpec == DecodeInit /\ [][Decode]_vars

\* ============================================================ block loop
MaxFullBlocks == 3

\* Lengths of what is left of a piece after its full blocks
Residues == {0, 1, 2, 8416, BLOCK_SIZE - 1}

\* The piece sizes the loop is followed for: up to MaxFullBlocks full blocks
\* and a residue, and the size of the spec's example
PieceSizes ==
    ({k * BLOCK_SIZE + r : k \in 0..MaxFullBlocks, r \in Residues} \ {0}) \cup {175712}

\* `as u32` (worker.rs 214-216), computed on 16-bit halves
as_u32(n) == (n % 65536) + 65536 * ((n \div 65536) % 65536)

\* worker.rs 289-295
get_residual_size(index, count, length, max_length) ==
    IF index = count - 1 /\ (length % max_length) # 0
    THEN length % max_length
    ELSE max_length

\* worker.rs 213-217: the Request of block b of piece i of `size` bytes
make_request(i, b, size) ==
    [index |-> as_u32(i),
     begin |-> as_u32(b * BLOCK_SIZE),
     length |-> as_u32(block_size(b, size))]

\* download_queue has taken a piece and enters its for loop (worker.rs 194-200)
LoopInit ==
    /\ SessionInit
    /\ CodecIdle
    /\ loop_piece \in [index : Pieces, size : PieceSizes]
    /\ loop_block = 0
    /\ request = [index |-> 0, begin |-> 0, length |-> 0]
    /\ n_requests = 0
    /\ requested = 0
    /\ ExtraIdle

\* worker.rs 200-217: one turn of the for loop builds the Request of the block
BuildRequest ==
    /\ loop_block < n_blocks(loop_piece.size)
    /\ request' = make_request(loop_piece.index, loop_block, loop_piece.size)
    /\ n_requests' = n_requests + 1
    /\ requested' = requested + request'.length
    /\ loop_block' = loop_block + 1
    /\ UNCHANGED loop_piece
    /\ UNCHANGED <<svars, cvars, xvars>>

LoopSpec == LoopInit /\ [][BuildRequest]_vars

\* ============================================================ piece sizes
MaxNumPieces == 3

\* Piece lengths and file lengths of the torrents the rule is applied to;
\* 262144 / 700000 is a torrent of three pieces whose last one is short
PieceLengths == {1, 3, BLOCK_SIZE, 262144}
FileLengths == {1, 2, 3, 7, 9, BLOCK_SIZE + 1, 2 * BLOCK_SIZE, 524288, 700000}

Torrents ==
    [plength : PieceLengths, length : FileLengths, num_pieces : 1..MaxNumPieces]

\* A torrent is loaded and no piece size is computed yet
SizeInit ==
    /\ SessionInit
    /\ CodecIdle
    /\ LoopIdle
    /\ torrent \in Torrents
    /\ piece_sizes = <<>>
    /\ HandshakeIdle
    /\ QueueIdle
    /\ ResponseIdle
    /\ StreamIdle
    /\ PeersAny

\* The size of the next piece index, as download_queue computes it (worker.rs
\* 176-186) and as download_piece computes it (worker.rs 90)
SizePiece ==
    /\ Len(piece_sizes) < torrent.num_pieces
    /\ LET i == Len(piece_sizes)
       IN  piece_sizes' = Append(piece_sizes,
               [inline |-> inline_piece_size(i, torrent.num_pieces, torrent.length,
                                             torrent.plength),
                residual |-> get_residual_size(i, torrent.num_pieces, torrent.length,
                                               torrent.plength)])
    /\ UNCHANGED torrent
    /\ UNCHANGED <<svars, cvars, bvars, kvars, qvars, rvars, dvars, evars>>

SizeSpec == SizeInit /\ [][SizePiece]_vars

\* ============================================================== handshake
\* 20-byte values: every byte v, but byte k is w
Bytes20(v, k, w) == [j \in 1..20 |-> IF j = k THEN w ELSE v]

\* Info hashes: one, one differing from it in the last byte only, one
\* differing from it in the first byte only
InfoHashes == {Bytes20(17, 1, 17), Bytes20(17, 20, 18), Bytes20(17, 1, 16)}
PeerIds == {Bytes20(48, 20, 57), Bytes20(45, 1, 82)}

\* What a remote may put before the info hash: the length byte, the protocol
\* string and the reserved bytes of a BitTorrent peer, or others
LengthBytes == {19, 0, 255}
ProtocolStrings ==
    {Handshake_new(Bytes20(0, 1, 0), Bytes20(0, 1, 0)).protocol, [k \in 1..19 |-> 120]}
ReservedBytes == {[k \in 1..8 |-> 0], [k \in 1..8 |-> IF k = 6 THEN 16 ELSE 0]}

\* handshake.rs 33-41
as_bytes(hs) ==
    <<hs.length>> \o hs.protocol \o hs.reserved \o hs.info_hash \o hs.peer_id

\* The 68 bytes read_exact may fill the buffer with
Replies ==
    {as_bytes([length |-> l, protocol |-> p, reserved |-> r, info_hash |-> h,
               peer_id |-> id]) :
        l \in LengthBytes, p \in ProtocolStrings, r \in ReservedBytes,
        h \in InfoHashes, id \in PeerIds}

\* What the network does during one call of send: the address does not
\* parse (44), connect fails (45), write_all fails (48), read_exact fails or
\* the peer closes before 68 bytes (49), or 68 bytes are read back
HandshakeIO ==
    {[kind |-> k] : k \in {"parse_err", "connect_err", "write_err", "read_err"}}
        \cup {[kind |-> "reply", bytes |-> b] : b \in Replies}

\* handshake.rs 51: handshake_bytes[28..48] != self.info_hash
info_hash_matches_with_protocol(handshake_bytes, info_hash) ==
    /\ SubSeq(handshake_bytes, 1, 20) = SubSeq(as_bytes(Handshake_new(info_hash, info_hash)), 1, 20)
    /\ SubSeq(handshake_bytes, 29, 48) = info_hash
info_hash_matches(handshake_bytes, info_hash) ==
    SubSeq(handshake_bytes, 29, 48) = info_hash

\* handshake.rs 43-58: what send returns (with the line it returns at), the
\* bytes it wrote, and the struct it leaves
send(hs, io) ==
    IF io.kind = "parse_err"
    THEN [result |-> [kind |-> "err", line |-> 44], sent |-> <<>>, handshake |-> hs]
    ELSE IF io.kind = "connect_err"
    THEN [result |-> [kind |-> "err", line |-> 45], sent |-> <<>>, handshake |-> hs]
    ELSE IF io.kind = "write_err"
    THEN [result |-> [kind |-> "err", line |-> 48], sent |-> <<>>, handshake |-> hs]
    ELSE IF io.kind = "read_err"
    THEN [result |-> [kind |-> "err", line |-> 49], sent |-> as_bytes(hs), handshake |-> hs]
    ELSE LET handshake_bytes == io.bytes
         IN  IF ~info_hash_matches(handshake_bytes, hs.info_hash)
             THEN [result |-> [kind |-> "err", line |-> 52], sent |-> as_bytes(hs),
                   handshake |-> hs]
             ELSE [result |-> [kind |-> "ok", line |-> 57], sent |-> as_bytes(hs),
                   handshake |-> [hs EXCEPT !.peer_id = SubSeq(handshake_bytes, 49, 68)]]

\* A Handshake was built by Handshake::new and send is about to be called
HandshakeInit ==
    /\ SessionInit
    /\ CodecIdle
    /\ LoopIdle
    /\ SizeIdle
    /\ handshake \in {Handshake_new(h, id) : h \in InfoHashes, id \in PeerIds}
    /\ hs_io \in HandshakeIO
    /\ hs_sent = <<>>
    /\ hs_result = [kind |-> "none", line |-> 0]
    /\ QueueIdle
    /\ ResponseIdle
    /\ StreamIdle
    /\ PeersAny

\* handshake.rs 43-58
Send ==
    /\ hs_result.kind = "none"
    /\ LET r == send(handshake, hs_io)
       IN  /\ hs_result' = r.result
           /\ hs_sent' = r.sent
           /\ handshake' = r.handshake
    /\ UNCHANGED hs_io
    /\ UNCHANGED <<svars, cvars, bvars, tvars, qvars, rvars, dvars, evars>>

HandshakeSpec == HandshakeInit /\ [][Send]_vars

\* ============================================================ queue calls
MaxQueueLen == 4

\* The indexes push_piece is called with
QueueIndexes == 0..NumPieces

\* The session variables other than the queue
lvars == <<pc, result, exit_line, piece_i, block, piece_data, emitted, rx_closed,
           take_count, push_count, sent, received, took, outstanding>>

\* worker.rs 301-305: PiecesQueue::new(0..n)
QueueInit ==
    /\ \E n \in 0..NumPieces :
          /\ queue = PiecesQueue_new(n)
          /\ last_call = [op |-> "new", arg |-> n, ret |-> None, before |-> <<>>]
    /\ SessionsStart
    /\ CodecIdle
    /\ LoopIdle
    /\ SizeIdle
    /\ HandshakeIdle
    /\ ResponseIdle
    /\ StreamIdle
    /\ PeersAny

\* worker.rs 307-309
CallTakePiece ==
    /\ LET t == take_piece(queue)
       IN  /\ queue' = t.queue
           /\ last_call' = [op |-> "take_piece", arg |-> None, ret |-> t.piece,
                            before |-> queue]
    /\ UNCHANGED <<lvars, cvars, bvars, tvars, kvars, rvars, dvars, evars>>

\* worker.rs 311-316
CallPushPiece ==
    /\ Len(queue) < MaxQueueLen
    /\ \E i \in QueueIndexes :
          /\ queue' = push_piece(queue, i)
          /\ last_call' = [op |-> "push_piece", arg |-> i, ret |-> None,
                            before |-> queue]
    /\ UNCHANGED <<lvars, cvars, bvars, tvars, kvars, rvars, dvars, evars>>

QueueNext == CallTakePiece \/ CallPushPiece

QueueSpec == QueueInit /\ [][QueueNext]_vars

\* ============================================================ byte stream
MaxFrames == 3

\* What a peer writes one after another: a keepalive, a message without
\* payload, a message with one byte of payload, a frame with an unknown
\* tag, and the start of a frame one byte over the size limit
StreamUnits ==
    {Keepalives(1),
     to_be_bytes(1) \o <<Unchoke>>,
     to_be_bytes(2) \o <<Have, 255>>,
     to_be_bytes(1) \o <<9>>,
     to_be_bytes(MAX + 1) \o <<Piece>>}

RECURSIVE Concats(_)
Concats(n) ==
    IF n = 0 THEN {<<>>} ELSE {u \o w : u \in StreamUnits, w \in Concats(n - 1)}

\* The streams: MaxFrames units, the connection closing after any byte
Streams == UNION {Cuts(w) : w \in Concats(MaxFrames)}

\* Framed calls decode on its read buffer again and again until decode
\* returns Ok(None) or an error (peer.rs 49-123 is each call): the frames
\* returned, the buffer left, and whether the last one is an error
RECURSIVE decode_all(_)
decode_all(src) ==
    LET d == decode(src) IN
    IF d.out.kind = "none" THEN [frames |-> <<>>, src |-> d.src, failed |-> FALSE]
    ELSE IF d.out.kind = "msg"
    THEN LET r == decode_all(d.src)
         IN  [frames |-> <<d.out>> \o r.frames, src |-> r.src, failed |-> r.failed]
    ELSE [frames |-> <<d.out>>, src |-> d.src, failed |-> TRUE]

\* The stream has returned an error and yields nothing more
Failed == frames # <<>> /\ frames[Len(frames)].kind # "msg"

\* A connection is open and nothing has arrived
StreamInit ==
    /\ SessionInit
    /\ CodecIdle
    /\ LoopIdle
    /\ SizeIdle
    /\ HandshakeIdle
    /\ QueueIdle
    /\ ResponseIdle
    /\ stream \in Streams
    /\ arrived = 0
    /\ n_chunks = 0
    /\ frames = <<>>
    /\ PeersAny

\* A chunk of n bytes is appended to the read buffer and decode is called
\* until it has nothing more to return
Arrive ==
    /\ ~Failed
    /\ \E n \in 1..(Len(stream) - arrived) :
          LET r == decode_all(buf \o SubSeq(stream, arrived + 1, arrived + n))
          IN  /\ frames' = frames \o r.frames
              /\ buf' = r.src
              /\ arrived' = arrived + n
    /\ n_chunks' = n_chunks + 1
    /\ UNCHANGED <<stream, cpc, cmsg, enc_ok, dec, input>>
    /\ UNCHANGED <<svars, bvars, tvars, kvars, qvars, rvars, evars>>

StreamSpec == StreamInit /\ [][Arrive]_vars

\* ============================================================ one response
\* worker.rs 213-232: the Request of a block of a piece was sent and the
\* session reads what the peer sends next
ResponseInit ==
    /\ SessionInit
    /\ CodecIdle
    /\ LoopIdle
    /\ SizeIdle
    /\ HandshakeIdle
    /\ QueueIdle
    /\ awaited \in {a \in [piece_i : Pieces, block : 0..(BlocksPerPiece - 1)] :
                       a.block < n_blocks(piece_size(a.piece_i))}
    /\ response \in ReadResults
    /\ handled = [kind |-> "none"]
    /\ StreamIdle
    /\ PeersAny

\* worker.rs 231-258
HandleResponse ==
    /\ handled.kind = "none"
    /\ handled' = read_outcome(response, awaited.piece_i, awaited.block)
    /\ UNCHANGED <<awaited, response>>
    /\ UNCHANGED <<svars, cvars, bvars, tvars, kvars, qvars, dvars, evars>>

ResponseSpec == ResponseInit /\ [][HandleResponse]_vars

\* ================================================================ claims
\* The sessions that hold index i: they took it and have neither emitted it
\* nor pushed it back
Owners(i) ==
    {s \in Sessions : piece_i[s] = i /\ pc[s] \in {"request", "response", "verify", "emit"}}

Pending(i) == Cardinality({k \in 1..Len(queue) : queue[k] = i})

EmittedCount(i) == Cardinality({k \in 1..Len(emitted) : emitted[k].index = i})

\* C1: in every reachable state each piece index is owned (taken and neither
\* emitted nor returned) by at most one session.
C1_AtMostOneOwner ==
    \A i \in Pieces : Cardinality(Owners(i)) <= 1

\* C2: in every reachable state each piece index occurs at most once among the
\* pending entries of the queue, and an index that was taken is absent from
\* the queue until it is returned.
C2_PendingAtMostOnce ==
    \A i \in Pieces :
        /\ Pending(i) <= 1
        /\ Owners(i) # {} => Pending(i) = 0

\* C3: no piece index is emitted on the completion channel more than once.
C3_NoDuplicateEmitted ==
    \A i \in Pieces : EmittedCount(i) <= 1

\* A step in which session s, waiting for the response to a Request, reads
\* something and appends no block: the read failed or the response was
\* rejected.
BlockFailed(s) ==
    /\ pc[s] = "response"
    /\ pc'[s] # "response"
    /\ Len(piece_data'[s]) # Len(piece_data[s]) + 1

\* Every block session s has appended answers the Request of its position:
\* the index of the piece held, begin = position * BLOCK_SIZE, the requested
\* number of bytes.
BlocksAnswerRequests(s) ==
    \A k \in 1..Len(piece_data[s]) :
        /\ piece_data[s][k].index = piece_i[s]
        /\ piece_data[s][k].begin = (k - 1) * BLOCK_SIZE
        /\ piece_data[s][k].len = block_size(k - 1, piece_size(piece_i[s]))

\* C4 as claimed: a response with a wrong index, begin or length is never
\* appended, and when the response is rejected or the read fails the session
\* pushes the index back and goes on to take its next piece, it does not
\* terminate.
C4_ContinuesAfterBadBlock ==
    [][\A s \in Sessions :
          /\ BlocksAnswerRequests(s)'
          /\ BlockFailed(s) =>
                /\ queue' = Append(queue, piece_i[s])
                /\ pc'[s] \in {"take", "broke"}
          /\ (pc[s] = "broke" /\ pc'[s] # "broke") => pc'[s] = "take"]_vars

\* C4 amended: a response with a wrong index, begin or length is never
\* appended, and when the response is rejected or the read fails the session
\* pushes the index back on the queue and then returns Ok without taking
\* another piece.
C4_ReturnsAfterBadBlock ==
    [][\A s \in Sessions :
          /\ BlocksAnswerRequests(s)'
          /\ BlockFailed(s) =>
                /\ queue' = Append(queue, piece_i[s])
                /\ \/ pc'[s] = "done" /\ result'[s] = "ok"
                   \/ pc'[s] = "broke"
          /\ (pc[s] = "broke" /\ pc'[s] # "broke") =>
                (pc'[s] = "done" /\ result'[s] = "ok")]_vars

\* C4 witness: a session returned Ok at line 254 (mismatched block) and the
\* index it held is pending again, and another one left the for loop on a
\* failed read.
C4_Witness ==
    /\ \E s \in Sessions : exit_line[s] = 254 /\ result[s] = "ok"
    /\ \E s \in Sessions : pc[s] = "broke" /\ Pending(piece_i[s]) >= 1

\* A step of session s that checks an assembled piece of the right length
\* whose SHA1 differs from the expected hash
HashMismatchStep(s) ==
    /\ pc[s] \in {"verify", "broke"}
    /\ pc'[s] # pc[s]
    /\ SumLen(piece_data[s]) = piece_size(piece_i[s])
    /\ Sha1(piece_data[s]) # piece_hash(piece_i[s])

\* C5 as claimed: on a hash mismatch nothing is emitted, the index is pushed
\* back exactly once and the session proceeds to take the next piece.
C5_ContinuesAfterBadHash ==
    [][\A s \in Sessions :
          HashMismatchStep(s) =>
              /\ emitted' = emitted
              /\ queue' = Append(queue, piece_i[s])
              /\ pc'[s] = "take"]_vars

\* C5 amended: on a hash mismatch nothing is emitted, the index is pushed back
\* exactly once and the session returns Ok without taking another piece.
C5_ReturnsAfterBadHash ==
    [][\A s \in Sessions :
          HashMismatchStep(s) =>
              /\ emitted' = emitted
              /\ queue' = Append(queue, piece_i[s])
              /\ push_count'[piece_i[s]] = push_count[piece_i[s]] + 1
              /\ pc'[s] = "done"
              /\ result'[s] = "ok"]_vars

\* C5 witness: a session left at line 277 (hash mismatch) and the index it
\* pushed back is pending.
C5_Witness ==
    \E s \in Sessions :
        /\ exit_line[s] = 277
        /\ \E i \in Pieces : push_count[i] = 1 /\ Pending(i) = 1

\* C6: every (index, bytes) emitted is verified: bytes is the concatenation
\* of the accepted blocks in ascending block order, its length is the piece
\* size of the index and its SHA1 is the metadata hash of the index.
C6_EmittedVerified ==
    \A k \in 1..Len(emitted) :
        LET e == emitted[k] IN
        /\ Len(e.data) = n_blocks(piece_size(e.index))
        /\ \A b \in 1..Len(e.data) :
              /\ e.data[b].index = e.index
              /\ e.data[b].begin = (b - 1) * BLOCK_SIZE
              /\ e.data[b].len = block_size(b - 1, piece_size(e.index))
        /\ SumLen(e.data) = piece_size(e.index)
        /\ Sha1(e.data) = piece_hash(e.index)

\* C6 witness: a piece of several blocks was emitted, and a session has
\* assembled data of the right length whose hash is wrong.
C6_Witness ==
    /\ \E k \in 1..Len(emitted) : Len(emitted[k].data) >= 2
    /\ \E s \in Sessions :
          /\ pc[s] = "verify"
          /\ SumLen(piece_data[s]) = piece_size(piece_i[s])
          /\ Sha1(piece_data[s]) # piece_hash(piece_i[s])

\* Index i is held by a session that is still running
Held(i) == \E s \in Sessions : pc[s] # "done" /\ piece_i[s] = i

\* C7 as claimed: each index is pending in the queue, or held by a session
\* that is still running, or already emitted.
C7_NoPieceLost ==
    \A i \in Pieces : Pending(i) >= 1 \/ Held(i) \/ EmittedCount(i) >= 1

\* C7 amended: each index is pending in the queue, or held by a session that
\* is still running, or already emitted, or was held by a session whose send
\* on the completion channel failed because the receiver was closed (line
\* 282, the one exit that does not push the index back).
C7_NoPieceLostButSendFailure ==
    \A i \in Pieces :
        \/ Pending(i) >= 1
        \/ Held(i)
        \/ EmittedCount(i) >= 1
        \/ \E s \in Sessions : exit_line[s] = 282 /\ result[s] = "err" /\ piece_i[s] = i

\* C7 witness: sessions left on failure paths (a rejected block, a failed
\* send of a Request) and every index is still pending, none emitted.
C7_Witness ==
    /\ \E s \in Sessions : exit_line[s] \in {239, 245, 254}
    /\ \E s \in Sessions : exit_line[s] = 228
    /\ \A i \in Pieces : Pending(i) >= 1 /\ EmittedCount(i) = 0

\* C8: take_piece returns each index once before any index is returned a
\* second time, and an index is returned again only after a push_piece of it
\* (never more often than once plus the number of its pushes).
C8_TakeOnceBeforeRepeat ==
    /\ \A i \in Pieces : take_count[i] <= 1 + push_count[i]
    /\ (\E i \in Pieces : take_count[i] >= 2) => (\A j \in Pieces : take_count[j] >= 1)

\* C8 witness: an index was taken a second time after it was pushed back.
C8_Witness ==
    \E i \in Pieces : take_count[i] >= 2 /\ push_count[i] >= 1

\* C9: for every message with payload length + 1 <= 65536, encoding it into
\* an empty buffer and decoding that buffer returns a message of the same
\* variant and payload and leaves the buffer empty.
C9_RoundTrip ==
    (cpc = "decoded" /\ Len(cmsg.payload) + 1 <= MAX) =>
        /\ dec = [kind |-> "msg", id |-> cmsg.id, payload |-> cmsg.payload]
        /\ buf = <<>>

\* C10: encode of a message with payload length p, p + 1 <= 65536, appends
\* exactly 5 + p bytes: the 4-byte big-endian encoding of p + 1 (the
\* encoding decode reads), the tag, the payload.
C10_EncodeBigEndian ==
    (cpc = "encoded" /\ Len(cmsg.payload) + 1 <= MAX) =>
        /\ enc_ok
        /\ Len(buf) = 5 + Len(cmsg.payload)
        /\ buf = to_be_bytes(Len(cmsg.payload) + 1) \o <<cmsg.id>> \o cmsg.payload
        /\ from_be_bytes(SubSeq(buf, 1, 4)) = Len(cmsg.payload) + 1

\* C11: decode on a buffer of 4 or more bytes whose first 4 bytes are a
\* big-endian length greater than 65536 returns the oversized-frame error,
\* whatever follows the prefix, never "need more data" and never a message.
C11_OversizedAlwaysError ==
    (/\ cpc = "decoded"
     /\ Len(input) >= 4
     /\ \E L \in PrefixLens : L > MAX /\ SubSeq(input, 1, 4) = to_be_bytes(L))
        => dec.kind = "too_large"

\* C12: for every length prefix L <= 65536 and every buffer shorter than
\* 4 + L bytes, and for every buffer shorter than 4 bytes, decode returns
\* Ok(None), never an error, whatever bytes are buffered; the buffer is left
\* as it was.
C12_PartialNeedsMoreData ==
    (/\ cpc = "decoded"
     /\ \/ Len(input) < 4
        \/ \E L \in PrefixLens :
              /\ L <= MAX
              /\ SubSeq(input, 1, 4) = to_be_bytes(L)
              /\ Len(input) < 4 + L)
        => (dec.kind = "none" /\ buf = input)

\* C12 witness: a frame of length 3 with an unknown tag byte, one byte short,
\* was answered with Ok(None).
C12_Witness ==
    /\ cpc = "decoded"
    /\ Len(input) = 6
    /\ SubSeq(input, 1, 4) = to_be_bytes(3)
    /\ input[5] = 255
    /\ dec.kind = "none"

\* C13: for a buffer made of k >= 0 keepalive frames followed by bytes R,
\* decode returns what decode on R alone returns and leaves the buffer decode
\* on R alone leaves (it consumed the 4k bytes as well); when R holds no
\* frame prefix the result is Ok(None), so no keepalive surfaces as a message
\* or an error.
C13_KeepalivesAbsorbed ==
    cpc = "decoded" =>
        \A k \in 0..(MaxKeepalives + 1) :
            (4 * k <= Len(input) /\ SubSeq(input, 1, 4 * k) = Keepalives(k)) =>
                LET R == advance(input, 4 * k)
                    d == decode(R)
                IN  /\ dec = d.out
                    /\ buf = d.src
                    /\ Len(input) - Len(buf) = 4 * k + (Len(R) - Len(d.src))
                    /\ Len(R) < 4 => (dec.kind = "none" /\ buf = R)

\* C13 witness: two keepalives, then a frame that was returned as a message,
\* bytes of a following frame left in the buffer.
C13_Witness ==
    /\ cpc = "decoded"
    /\ Len(input) > 8
    /\ SubSeq(input, 1, 8) = Keepalives(2)
    /\ dec.kind = "msg"
    /\ buf # <<>>

\* The message types in the order of their tags
TagOrder ==
    <<Choke, Unchoke, Interested, NotInterested, Have, Bitfield, Request, Piece, Cancel>>

\* C14: decode on a complete frame (length in 1..65536, at least 4 + length
\* bytes buffered) returns a message whose type is the tag byte's entry in
\* Choke, Unchoke, Interested, NotInterested, Have, Bitfield, Request, Piece,
\* Cancel for the tags 0..8, and the unknown-tag error for every other tag.
C14_TagMapping ==
    (/\ cpc = "decoded"
     /\ \E L \in PrefixLens :
           /\ L <= MAX
           /\ Len(input) >= 4 + L
           /\ SubSeq(input, 1, 4) = to_be_bytes(L))
        => IF input[5] \in 0..8
           THEN dec.kind = "msg" /\ dec.id = TagOrder[input[5] + 1]
           ELSE dec.kind = "unknown_type" /\ buf = input

\* C14 witness: a complete frame with tag byte 9 was answered with the
\* unknown-tag error.
C14_Witness ==
    /\ cpc = "decoded"
    /\ Len(input) >= 5
    /\ SubSeq(input, 1, 4) = to_be_bytes(1)
    /\ input[5] = 9
    /\ dec.kind = "unknown_type"

\* C15: encode of a message with payload length + 1 > 65536 returns an error
\* and writes no byte to the destination buffer.
C15_EncodeRejectsOversized ==
    (cpc = "encoded" /\ Len(cmsg.payload) + 1 > MAX) =>
        (~enc_ok /\ buf = <<>>)

\* C15 witness: encode was called with a payload of 65536 bytes and returned
\* an error.
C15_Witness ==
    /\ cpc = "encoded"
    /\ Len(cmsg.payload) = MAX
    /\ ~enc_ok

\* Session s has received Bitfield as its first message
GotBitfield(s) == Len(received[s]) >= 1 /\ received[s][1].id = Bitfield

\* Session s has then received Unchoke with an empty payload
GotUnchoke(s) ==
    /\ GotBitfield(s)
    /\ Len(received[s]) >= 2
    /\ received[s][2] = [id |-> Unchoke, empty |-> TRUE]

\* C16: when the first message a session receives is of any type but
\* Bitfield the session fails (the assert at line 53), and it has then sent
\* no Interested and no Request and has taken no piece from the queue.
C16_FirstMessageBitfield ==
    \A s \in Sessions :
        (Len(received[s]) >= 1 /\ received[s][1].id # Bitfield) =>
            /\ pc[s] = "done"
            /\ result[s] = "panic"
            /\ exit_line[s] = 53
            /\ Len(received[s]) = 1
            /\ sent[s] = {}
            /\ ~took[s]
            /\ piece_i[s] = None

\* C16 witness: one session failed on a first message of type Piece while
\* another one, whose peer sent Bitfield, holds a piece.
C16_Witness ==
    \E s, u \in Sessions :
        /\ received[s] = <<[id |-> Piece]>>
        /\ result[s] = "panic"
        /\ GotBitfield(u)
        /\ piece_i[u] # None

\* C17: a session sends Interested only after it received Bitfield, and takes
\* a piece or sends a Request only after it then received Unchoke with an
\* empty payload; any other message, or an Unchoke with a payload, received
\* while awaiting Unchoke fails the session (the asserts at lines 69 and 70)
\* before any piece is taken.
C17_NegotiationOrder ==
    \A s \in Sessions :
        /\ Interested \in sent[s] => GotBitfield(s)
        /\ Len(received[s]) >= 2 => Interested \in sent[s]
        /\ (took[s] \/ piece_i[s] # None \/ Request \in sent[s]) => GotUnchoke(s)
        /\ (Len(received[s]) >= 2 /\ ~GotUnchoke(s)) =>
              /\ pc[s] = "done"
              /\ result[s] = "panic"
              /\ exit_line[s] = IF received[s][2].id # Unchoke THEN 69 ELSE 70
              /\ ~took[s]
              /\ piece_i[s] = None
              /\ Request \notin sent[s]

\* C17 witness: a session failed on an Unchoke that carried a payload, after
\* it had sent Interested, and another one has sent a Request.
C17_Witness ==
    \E s, u \in Sessions :
        /\ Len(received[s]) = 2
        /\ received[s][2] = [id |-> Unchoke, empty |-> FALSE]
        /\ result[s] = "panic"
        /\ sent[s] = {Interested}
        /\ Request \in sent[u]
        /\ outstanding[u] = 1

\* C18: a session that finds the queue empty when it takes its next piece
\* returns Ok (not an error), sends no further message and leaves the queue
\* as it is.
C18_EmptyQueueReturnsOk ==
    [][\A s \in Sessions :
          /\ (pc[s] = "take" /\ queue = <<>> /\ pc'[s] # "take") =>
                /\ pc'[s] = "done"
                /\ result'[s] = "ok"
                /\ exit_line'[s] = 169
                /\ queue' = queue
                /\ sent'[s] = sent[s]
                /\ outstanding'[s] = outstanding[s]
          /\ pc[s] = "done" =>
                /\ pc'[s] = "done"
                /\ sent'[s] = sent[s]
                /\ outstanding'[s] = outstanding[s]]_vars

\* C18 witness: a session that never had a piece returned Ok at line 169 on
\* an empty queue, while another session still holds a piece.
C18_Witness ==
    \E s, u \in Sessions :
        /\ exit_line[s] = 169
        /\ result[s] = "ok"
        /\ ~took[s]
        /\ queue = <<>>
        /\ pc[u] = "response"

\* C19: a session has at most one Request outstanding; it sends a Request
\* only when none is outstanding and every earlier block of the piece was
\* received and accepted, and it sends none after a response was rejected or
\* a read failed.
C19_OneOutstandingRequest ==
    [][\A s \in Sessions :
          /\ outstanding'[s] <= 1
          /\ outstanding'[s] > outstanding[s] =>
                /\ outstanding[s] = 0
                /\ Len(piece_data[s]) = block[s]
                /\ BlocksAnswerRequests(s)
                /\ pc[s] = "request"
          /\ (pc[s] = "broke" \/ exit_line[s] \in {239, 245, 254, 263}) =>
                /\ outstanding'[s] = outstanding[s]
                /\ sent'[s] = sent[s]]_vars

\* C19 witness: a session is waiting for the response to the Request of the
\* second block of its piece, the first block accepted.
C19_Witness ==
    \E s \in Sessions :
        /\ pc[s] = "response"
        /\ block[s] = 1
        /\ Len(piece_data[s]) = 1
        /\ outstanding[s] = 1

\* ceil(S / 16384)
CeilBlocks(S) == (S \div BLOCK_SIZE) + (IF S % BLOCK_SIZE = 0 THEN 0 ELSE 1)

\* The Requests built so far partition the first bytes of a piece of S
\* bytes: the Request built last is the one of block n_requests - 1, its
\* begin is that block's offset, its length is 16384 unless it is the last
\* block and S mod 16384 is non-zero, in which case it is S mod 16384; the
\* lengths are in 1..16384; after the loop there are ceil(S / 16384) Requests
\* and their lengths sum to S.
RequestsPartition ==
    LET S == loop_piece.size
        b == n_requests - 1
    IN  /\ n_requests = loop_block
        /\ n_requests <= CeilBlocks(S)
        /\ n_requests >= 1 =>
              /\ request.index = loop_piece.index
              /\ request.begin = b * BLOCK_SIZE
              /\ request.length =
                    IF b = CeilBlocks(S) - 1 /\ S % BLOCK_SIZE # 0
                    THEN S % BLOCK_SIZE
                    ELSE BLOCK_SIZE
              /\ request.length \in 1..BLOCK_SIZE
              /\ request.length = get_residual_size(b, CeilBlocks(S), S, BLOCK_SIZE)
              /\ requested = IF b = CeilBlocks(S) - 1 THEN S ELSE n_requests * BLOCK_SIZE
        /\ ~ENABLED BuildRequest => (n_requests = CeilBlocks(S) /\ requested = S)

\* C20 as claimed: the Requests of a piece of S >= 1 bytes partition it, and
\* for S = 175712 there are 11 blocks, blocks 0..9 of 16384 bytes and block
\* 10 of 8416 bytes.
C20_BlocksPartitionExample8416 ==
    loop_piece.size >= 1 =>
        /\ RequestsPartition
        /\ loop_piece.size = 175712 =>
              /\ CeilBlocks(loop_piece.size) = 11
              /\ n_requests \in 1..10 => request.length = 16384
              /\ n_requests = 11 => request.length = 8416

\* C20 amended: the Requests of a piece of S >= 1 bytes partition it, and
\* for S = 175712 there are 11 blocks, blocks 0..9 of 16384 bytes and block
\* 10 of 175712 mod 16384 = 11872 bytes.
C20_BlocksPartition ==
    loop_piece.size >= 1 =>
        /\ RequestsPartition
        /\ loop_piece.size = 175712 =>
              /\ CeilBlocks(loop_piece.size) = 11
              /\ n_requests \in 1..10 => request.length = 16384
              /\ n_requests = 11 => request.length = 11872

\* C20 witness: the loop of a piece of 175712 bytes has built all its
\* Requests.
C20_Witness ==
    /\ loop_piece.size = 175712
    /\ n_requests = 11
    /\ requested = 175712
    /\ request.begin = 163840

\* ---------------------------------------------------------------- C21
CeilDiv(a, b) == (a + b - 1) \div b

RECURSIVE SumInline(_)
SumInline(d) == IF d = <<>> THEN 0 ELSE Head(d).inline + SumInline(Tail(d))

\* C21: a piece that is not the last has plength bytes; the last piece has
\* length mod plength bytes when that is not zero and plength bytes otherwise;
\* when the piece count is ceil(length / plength) the sizes of all pieces sum
\* to the file length (262144 / 700000 gives 262144, 262144, 175712); and the
\* inline rule of download_queue and get_residual_size, which download_piece
\* uses, give the same size for every index of every torrent.
C21_PieceSizeRule ==
    /\ \A k \in 1..Len(piece_sizes) :
          /\ piece_sizes[k].inline =
                IF k - 1 # torrent.num_pieces - 1 THEN torrent.plength
                ELSE IF torrent.length % torrent.plength # 0
                     THEN torrent.length % torrent.plength
                     ELSE torrent.plength
          /\ piece_sizes[k].residual = piece_sizes[k].inline
    /\ (/\ Len(piece_sizes) = torrent.num_pieces
        /\ torrent.num_pieces = CeilDiv(torrent.length, torrent.plength))
          => SumInline(piece_sizes) = torrent.length
    /\ (/\ torrent = [plength |-> 262144, length |-> 700000, num_pieces |-> 3]
        /\ Len(piece_sizes) = 3)
          => /\ piece_sizes[1].inline = 262144
             /\ piece_sizes[2].inline = 262144
             /\ piece_sizes[3].inline = 175712

\* The sizes of the three pieces of the 700000-byte torrent are computed
C21_Witness ==
    /\ torrent = [plength |-> 262144, length |-> 700000, num_pieces |-> 3]
    /\ Len(piece_sizes) = 3
    /\ piece_sizes[3] = [inline |-> 175712, residual |-> 175712]

\* ---------------------------------------------------------------- C22
\* C22: Handshake::send returns a connection exactly when bytes 28..48 of the
\* 68 bytes read back equal the info hash it sent; on a mismatch it returns
\* an error, no connection, and leaves the local peer_id as it was; the
\* length byte, the protocol string and the reserved bytes of the reply have
\* no influence on what is returned; on success peer_id is bytes 48..68 of
\* the reply.
C22_HandshakeChecksInfoHashOnly ==
    [][(hs_io.kind = "reply" /\ hs_result.kind = "none" /\ hs_result'.kind # "none")
        => /\ hs_sent' = as_bytes(handshake)
           /\ (hs_result'.kind = "ok")
                 <=> (SubSeq(hs_io.bytes, 29, 48) = SubSeq(hs_sent', 29, 48))
           /\ SubSeq(hs_sent', 29, 48) = handshake.info_hash
           /\ hs_result'.kind # "ok"
                 => hs_result'.kind = "err" /\ handshake' = handshake
           /\ hs_result'.kind = "ok"
                 => handshake' = [handshake EXCEPT !.peer_id = SubSeq(hs_io.bytes, 49, 68)]
      ]_vars

\* send returned a connection on a reply whose length byte, protocol string
\* and reserved bytes are not those of a BitTorrent peer, and took its peer id
C22_Witness ==
    /\ hs_result.kind = "ok"
    /\ hs_io.bytes[1] # 19
    /\ SubSeq(hs_io.bytes, 2, 20) # Handshake_new(<<>>, <<>>).protocol
    /\ SubSeq(hs_io.bytes, 21, 28) # Handshake_new(<<>>, <<>>).reserved
    /\ handshake.peer_id = SubSeq(hs_io.bytes, 49, 68)
    /\ handshake.peer_id # SubSeq(hs_sent, 49, 68)

\* ---------------------------------------------------------------- C23
\* C23: the queue is first in, first out. PiecesQueue::new(0..N) holds
\* 0..N-1 in ascending order, each once; take_piece removes and returns the
\* entry inserted earliest, or returns None on an empty queue, and leaves
\* the other entries as they were; push_piece(i) adds i at the end.
C23_QueueIsFifo ==
    /\ last_call.op = "new"
          => /\ Len(queue) = last_call.arg
             /\ \A k \in 1..Len(queue) : queue[k] = k - 1
    /\ last_call.op = "take_piece"
          => IF last_call.before = <<>>
             THEN last_call.ret = None /\ queue = <<>>
             ELSE /\ last_call.ret = last_call.before[1]
                  /\ Len(queue) = Len(last_call.before) - 1
                  /\ \A k \in 1..Len(queue) : queue[k] = last_call.before[k + 1]
    /\ last_call.op = "push_piece"
          => /\ Len(queue) = Len(last_call.before) + 1
             /\ queue[Len(queue)] = last_call.arg
             /\ \A k \in 1..Len(last_call.before) : queue[k] = last_call.before[k]

\* take_piece returned the earliest entry of a queue to which an index had
\* been pushed back
C23_Witness ==
    /\ last_call.op = "take_piece"
    /\ last_call.before = <<0, 1, 0>>
    /\ last_call.ret = 0
    /\ queue = <<1, 0>>

\* ---------------------------------------------------------------- C24
\* C24: the message accepted as the response to a Request is a Piece
\* message; a message of any other type read while a Request is outstanding
\* is never parsed as block data and appended to the piece.
C24_OnlyPieceMessagesAppended ==
    handled.kind = "append" => response.id = Piece

\* ---------------------------------------------------------------- C27
\* C27: decode on a buffer that begins with a complete frame of length L in
\* 1..65536 (and a known tag) returns as payload the L-1 bytes 5..4+L of the
\* buffer, the empty payload when L = 1 even if more bytes are buffered,
\* removes exactly the first 4+L bytes and leaves every later byte in place
\* and in order.
C27_PayloadAndConsumption ==
    (/\ cpc = "decoded"
     /\ Len(input) >= 5
     /\ input[5] \in MessageTypes
     /\ LET L == from_be_bytes(SubSeq(input, 1, 4))
        IN  L \in 1..MAX /\ Len(input) >= 4 + L)
        => LET L == from_be_bytes(SubSeq(input, 1, 4))
           IN  /\ dec.kind = "msg"
               /\ Len(dec.payload) = L - 1
               /\ \A k \in 1..(L - 1) : dec.payload[k] = input[5 + k]
               /\ Len(buf) = Len(input) - (4 + L)
               /\ \A k \in 1..Len(buf) : buf[k] = input[4 + L + k]

\* A frame of length 1 followed by two more bytes was decoded: the payload is
\* empty and the two bytes are left
C27_Witness ==
    /\ cpc = "decoded"
    /\ Len(input) = 7
    /\ SubSeq(input, 1, 4) = to_be_bytes(1)
    /\ dec.kind = "msg"
    /\ dec.payload = <<>>
    /\ buf = <<1, 255>>

\* ---------------------------------------------------------------- C26
\* C26: decode does not depend on chunk boundaries. However the bytes of a
\* stream are split into chunks, calling decode repeatedly after each chunk
\* returns the same sequence of messages, and the same error at the same
\* frame if there is one, as appending the bytes at once and calling decode
\* repeatedly.
C26_ChunkingIrrelevant ==
    LET whole == decode_all(SubSeq(stream, 1, arrived))
    IN  /\ frames = whole.frames
        /\ Failed <=> whole.failed
        /\ ~Failed => buf = whole.src

\* A stream of a keepalive, a message with a payload and an oversized frame
\* arrived one byte at a time: the message, then the error
C26_Witness ==
    /\ stream = Keepalives(1) \o to_be_bytes(2) \o <<Have, 255>> \o to_be_bytes(MAX + 1) \o <<Piece>>
    /\ arrived = Len(stream)
    /\ n_chunks = Len(stream)
    /\ frames = <<[kind |-> "msg", id |-> Have, payload |-> <<255>>], [kind |-> "too_large"]>>

AllReliable == \A s \in Sessions : Reliable(s)

\* C28: when every peer completes the handshake and the negotiation and
\* answers every Request with the right data, then under every interleaving
\* push_piece is never called, no index is emitted twice and at most
\* num_pieces entries are sent on the channel; and eventually every session
\* has returned Ok, the queue is empty and every index was emitted exactly
\* once.
C28_AllReliableCompletes ==
    /\ [](AllReliable =>
            /\ \A i \in Pieces : push_count[i] = 0 /\ EmittedCount(i) <= 1
            /\ Len(emitted) <= num_pieces
            /\ \A s \in Sessions : result[s] \in {"running", "ok"})
    /\ <>[](AllReliable =>
            /\ \A s \in Sessions : pc[s] = "done" /\ result[s] = "ok"
            /\ queue = <<>>
            /\ \A i \in Pieces : EmittedCount(i) = 1 /\ take_count[i] = 1
            /\ Len(emitted) = num_pieces)

\* With three reliable peers every session has returned Ok; the pieces were
\* emitted out of order
C28_Witness ==
    /\ AllReliable
    /\ \A s \in Sessions : pc[s] = "done" /\ result[s] = "ok" /\ exit_line[s] = 169
    /\ queue = <<>>
    /\ Len(emitted) = num_pieces
    /\ emitted[1].index = 1
    /\ \A i \in Pieces : push_count[i] = 0
====
